---- MODULE Spec2Model ----
(***************************************************************************)
(* Model of the AWS agent chatbot: the conversation-context builder and     *)
(* agent invocation (aws_agent_chatbot.py), the chat session of the UI      *)
(* (main.py), the upload pipeline, the ingestion trigger of both clients    *)
(* and the serverless save handler (lambda_function.py, aws_agent.py).      *)
(*                                                                          *)
(* Text is a sequence of atoms: f"User: {c}" is <<"User: ">> \o c, and      *)
(* "\n\n".join(parts) interleaves the atom "\n\n" between the parts.        *)
(***************************************************************************)
EXTENDS Naturals, Integers, Sequences, FiniteSets, TLC

VARIABLES
    \* --- context builder called on its own (SpecContext) ---
    history,            \* conversation_history handed to the builder
    current_input,      \* current_input / user_input
    payload,            \* the value the last call returned
    prev_payload,       \* the value the call before it returned
    calls,              \* number of calls made on this snapshot
    \* --- the chat UI (Spec) ---
    session_state,      \* st.session_state
    agent_call,         \* the last invoke_agent request sent to the agent runtime
    run_error,          \* the last script run ended with an uncaught exception
    chat_input_shown,   \* the last script run rendered st.chat_input
    uuid_count,         \* uuid4 values generated so far
    credential_test,    \* test_credentials in this script run: the exception
                        \* it caught and the dict it returned
    \* --- the wall clock, in seconds ---
    now,
    \* --- upload_multiple_files_to_s3 (SpecUpload) ---
    files_list,         \* the batch: the name of each file object
    up_pc,              \* "idle", "loop", "done"
    up_i,               \* enumerate index of the loop, from 1
    results,            \* the results dict: file name -> result
    upload_log,         \* the upload_fileobj calls made, with how each ended
    s3_objects,         \* the keys stored in the bucket
    successful_uploads,
    failed_uploads,
    \* --- sync_knowledge_base of either client (SpecSync, SpecLambda) ---
    client,             \* "chatbot" (AWSAgentChatbot) or "lambda" (AWSAgent)
    data_sources,       \* dataSourceSummaries of the knowledge base
    sync_pc,            \* "idle", "call", "start", "done", "raised"
    list_outcome,       \* how the list_data_sources call ended
    data_source_id,     \* what get_data_source_id returned
    ingestion_calls,    \* the start_ingestion_job calls made
    sync_result,        \* what sync_knowledge_base returned
    \* --- lambda_handler (SpecLambda) ---
    event,
    lam_pc,             \* "idle", "receive", "save", "sync", "returned", "raised"
    save_call,          \* the save routine the handler called, with its arguments
    s3_puts,            \* the put_object calls made
    upload_response,    \* what the save routine returned
    handler_result,     \* what lambda_handler returned
    invocation,         \* number of this invocation of the handler, from 1
    \* --- invoke_agent and its response stream (SpecInvoke) ---
    stream,             \* response['completion']: the events the service sends
    inv_pc,             \* "idle", "send", "stream", "returned", "raised"
    inv_i,              \* the next event of the stream, from 1
    full_response,
    inv_failure,        \* how the call failed: "none", "client_error", "other_error"
    invoke_result,      \* what invoke_agent returned
    \* --- sanitize_filename called on its own (SpecSanitize) ---
    san_input,          \* filename
    san_output,         \* what the last call returned
    san_prev,           \* what the call before it returned
    san_pc              \* "idle", "call", "again", "done"

ctxVars == <<history, current_input, payload, prev_payload, calls>>

uiVars == <<session_state, agent_call, run_error, chat_input_shown, uuid_count,
            credential_test>>

upVars == <<files_list, up_pc, up_i, results, upload_log, s3_objects,
            successful_uploads, failed_uploads>>

syncVars == <<client, data_sources, sync_pc, list_outcome, data_source_id,
              ingestion_calls, sync_result>>

lamVars == <<event, lam_pc, save_call, s3_puts, upload_response, handler_result,
             invocation>>

invVars == <<stream, inv_pc, inv_i, full_response, inv_failure, invoke_result>>

sanVars == <<san_input, san_output, san_prev, san_pc>>

vars == <<ctxVars, uiVars, now, upVars, syncVars, lamVars, invVars, sanVars>>

(***************************************************************************)
(* Bounds of the model                                                      *)
(***************************************************************************)
MaxHist == 12       \* longest history handed to the builder
MaxOdd == 1         \* messages of a history that leave its base pattern
MaxCalls == 2       \* calls of the builder on one snapshot
MaxMsgs == 4        \* longest message list of a chat session
MaxUuids == 3       \* session ids generated in one run of the UI
MaxBatch == 3       \* files of one upload batch
MaxClock == 1       \* seconds the wall clock can advance
MaxSources == 2     \* data sources of the knowledge base
MaxStream == 3      \* events of a completion stream
MaxName == 3        \* characters of a file name handed to sanitize_filename
MaxErr == 2         \* words of an exception message
MaxInvocations == 2 \* invocations of the save handler on one bucket

(***************************************************************************)
(* Text helpers                                                             *)
(***************************************************************************)
UserPrefix == <<"User: ">>
AssistantPrefix == <<"Assistant: ">>
Separator == <<"\n\n">>
NoText == <<"<none>">>      \* no value returned yet

Atoms(text) == {text[i] : i \in DOMAIN text}

\* sep.join(parts)
RECURSIVE Join(_, _)
Join(parts, sep) ==
    IF parts = <<>> THEN <<>>
    ELSE IF Len(parts) = 1 THEN parts[1]
    ELSE parts[1] \o sep \o Join(Tail(parts), sep)

\* seq[-n:]
LastN(seq, n) ==
    IF Len(seq) <= n THEN seq ELSE SubSeq(seq, Len(seq) - n + 1, Len(seq))

(***************************************************************************)
(* AWSAgentChatbot._build_conversation_context                              *)
(***************************************************************************)
HistoryWindow == 10

Roles == {"user", "assistant", "system"}

\* msg.get("role") == "system" or msg.get("is_context", False)
IsSkipped(msg) == msg.role = "system" \/ msg.is_context

\* ContextLoop labelling every retained message "User: "
RECURSIVE ContextLoop_OneLabel(_, _, _)
ContextLoop_OneLabel(recent_history, i, context_parts) ==
    IF i > Len(recent_history) THEN context_parts
    ELSE LET msg == recent_history[i]
         IN IF msg.role = "system" \/ msg.is_context
              THEN ContextLoop_OneLabel(recent_history, i + 1, context_parts)
              ELSE ContextLoop_OneLabel(recent_history, i + 1,
                                        Append(context_parts, UserPrefix \o msg.content))

\* ContextLoop without the skip test: whatever is not a user message is
\* emitted as an assistant entry
RECURSIVE ContextLoop_NoSkip(_, _, _)
ContextLoop_NoSkip(recent_history, i, context_parts) ==
    IF i > Len(recent_history) THEN context_parts
    ELSE LET msg == recent_history[i]
         IN IF msg.role = "user"
              THEN ContextLoop_NoSkip(recent_history, i + 1,
                                      Append(context_parts, UserPrefix \o msg.content))
              ELSE ContextLoop_NoSkip(recent_history, i + 1,
                                      Append(context_parts, AssistantPrefix \o msg.content))

\* the loop over recent_history: context_parts after message i, i+1, ...
RECURSIVE ContextLoop(_, _, _)
ContextLoop(recent_history, i, context_parts) ==
    IF i > Len(recent_history) THEN context_parts
    ELSE LET msg == recent_history[i]
         IN IF IsSkipped(msg)
              THEN ContextLoop(recent_history, i + 1, context_parts)
            ELSE IF msg.role = "user"
              THEN ContextLoop(recent_history, i + 1,
                               Append(context_parts, UserPrefix \o msg.content))
            ELSE IF msg.role = "assistant"
              THEN ContextLoop(recent_history, i + 1,
                               Append(context_parts, AssistantPrefix \o msg.content))
            ELSE ContextLoop(recent_history, i + 1, context_parts)

\* RecentHistory without the window: the whole history
RecentHistory_NoWindow(conversation_history) == conversation_history

RecentHistory(conversation_history) == LastN(conversation_history, HistoryWindow)

\* build_conversation_context without its single-entry branch
build_conversation_context_AlwaysJoin(conversation_history, input) ==
    Join(Append(ContextLoop(RecentHistory(conversation_history), 1, <<>>),
                UserPrefix \o input), Separator)

build_conversation_context(conversation_history, input) ==
    LET recent_history == RecentHistory(conversation_history)
        context_parts == Append(ContextLoop(recent_history, 1, <<>>),
                                UserPrefix \o input)
    IN IF Len(context_parts) > 1
         THEN Join(context_parts, Separator)
         ELSE input

\* invoke_agent: the inputText it sends ("if conversation_history:")
invoke_agent_context(conversation_history, input) ==
    IF conversation_history # <<>>
      THEN build_conversation_context(conversation_history, input)
      ELSE input

(***************************************************************************)
(* The state of the parts a specification does not run                      *)
(***************************************************************************)
NoResult == [kind |-> "none"]

UploadIdle ==
    /\ files_list = <<>>
    /\ up_pc = "idle"
    /\ up_i = 1
    /\ results = <<>>
    /\ upload_log = <<>>
    /\ s3_objects = {}
    /\ successful_uploads = 0
    /\ failed_uploads = 0

SyncIdle ==
    /\ client = "chatbot"
    /\ data_sources = <<>>
    /\ sync_pc = "idle"
    /\ list_outcome = "unset"
    /\ data_source_id = "unset"
    /\ ingestion_calls = <<>>
    /\ sync_result = NoResult

LambdaIdle ==
    /\ event = [kind |-> "none"]
    /\ lam_pc = "idle"
    /\ invocation = 0
    /\ save_call = NoResult
    /\ s3_puts = <<>>
    /\ upload_response = NoResult
    /\ handler_result = NoResult

InvokeIdle ==
    /\ stream = <<>>
    /\ inv_pc = "idle"
    /\ inv_i = 1
    /\ full_response = <<>>
    /\ inv_failure = "none"
    /\ invoke_result = NoResult

SanitizeIdle ==
    /\ san_input = <<>>
    /\ san_output = NoResult
    /\ san_prev = NoResult
    /\ san_pc = "idle"

(***************************************************************************)
(* The chat UI: main.py. One action is one script run: the widget event     *)
(* that caused it, then the page that main() renders.                       *)
(***************************************************************************)
None == "None"

\* list_agents: agentId of each agent (the agentName is modelled by the id)
AllAgents == <<"A1", "A2">>

Pages == {"Agents", "Chat", "History", "Knowledge Base"}

Prompts == {<<"p1">>, <<"p2">>}
NoPrompt == <<"<no prompt>">>
Hello == <<"Hello">>

\* how a call of the agent runtime ends: a reply, a stream without chunks,
\* a ClientError, any other exception (a read timeout among them)
InvokeOutcomes == {"reply", "empty", "client_error", "other_error"}

NoCall == [agentId |-> None, agentAliasId |-> None, sessionId |-> 0, inputText |-> <<>>]

\* a key of st.session_state that was never written
Unset == "Unset"

\* list_agent_aliases of the connected account: A1 has two aliases, the
\* second one updated last, A2 has none
list_agent_aliases(agent_id) ==
    IF agent_id = "A1"
      THEN <<[agentAliasId |-> "AL1", lastUpdatedDateTime |-> 1],
             [agentAliasId |-> "AL2", lastUpdatedDateTime |-> 2]>>
      ELSE <<>>

\* sorted(aliases, key=lastUpdatedDateTime, reverse=True)[0]
newest_alias(aliases) ==
    CHOOSE a \in {aliases[i] : i \in DOMAIN aliases} :
        \A i \in DOMAIN aliases : a.lastUpdatedDateTime >= aliases[i].lastUpdatedDateTime

\* what the user can type into the "Version:" field
VersionInputs == {"DRAFT", "1"}

Msg(role, content, is_context) ==
    [role |-> role, content |-> content, is_context |-> is_context]

\* a switch note that lost its is_context flag
SwitchNote_NoFlag(previous_agent_name, agent_name) ==
    Msg("system",
        <<"Note: Switching from agent '", previous_agent_name, "' to '",
          agent_name, "'. Previous conversation context is maintained.">>,
        FALSE)

\* main.py:326-331, the context message of an agent switch
SwitchNote(previous_agent_name, agent_name) ==
    Msg("system",
        <<"Note: Switching from agent '", previous_agent_name, "' to '",
          agent_name, "'. Previous conversation context is maintained.">>,
        TRUE)

FreshContext(agent) ==
    [current_agent |-> agent, message_count |-> 0, last_agent_switch |-> FALSE]

\* init_session_state and setup_sidebar on the first run
InitialSessionState ==
    [chatbot |-> None, agents |-> <<>>, selected_agent |-> None,
     messages |-> <<>>, session_id |-> 1,
     conversation_context |-> FreshContext(None),
     is_logged_in |-> FALSE, selected_page |-> "Agents",
     previous_agent_selection |-> None, agent_selection |-> None,
     chat_alias_id |-> Unset, use_latest_alias |-> Unset, use_version |-> Unset,
     previous_alias_selection |-> Unset,
     use_latest_toggle |-> None, agent_section_alias |-> None,
     use_version_toggle |-> None, chat_version |-> None]

UiIdle ==
    /\ session_state = InitialSessionState
    /\ agent_call = NoCall
    /\ run_error = FALSE
    /\ chat_input_shown = FALSE
    /\ uuid_count = 1
    /\ credential_test = NoResult

\* invoke_agent: what it returns when it returns
AgentResponse(out) ==
    IF out = "reply" THEN <<"r1">>
    ELSE IF out = "empty" THEN <<>>
    ELSE <<"Sorry, I encountered an error: ", "ClientError">>

InvokeRequest(s, user_input, conversation_history) ==
    [agentId |-> s.selected_agent, agentAliasId |-> s.chat_alias_id,
     sessionId |-> s.session_id,
     inputText |-> invoke_agent_context(conversation_history, user_input)]

RunResult(s, call, error, shown) ==
    [s |-> s, call |-> call, error |-> error, shown |-> shown]

\* a chat turn that keeps only the newest exchange in the message list
ChatTurn_NewestOnly(s, prompt, out) ==
    RunResult(
        [s EXCEPT !.messages = <<Msg("user", prompt, FALSE),
                                 Msg("assistant", AgentResponse(out), FALSE)>>],
        InvokeRequest(s, prompt, Append(s.messages, Msg("user", prompt, FALSE))),
        FALSE, TRUE)

\* display_chat_section, lines 579-610: the chat input was submitted
ChatTurn(s, prompt, out) ==
    LET s1 == [s EXCEPT !.messages = Append(@, Msg("user", prompt, FALSE))]
        call == InvokeRequest(s1, prompt, s1.messages)
    IN IF out = "other_error"
         THEN RunResult(
                [s1 EXCEPT !.messages = Append(@,
                    Msg("assistant",
                        <<"Sorry, I encountered an error: ", "Exception">>, FALSE))],
                call, FALSE, TRUE)
       ELSE IF AgentResponse(out) # <<>>
         THEN RunResult(
                [s1 EXCEPT !.messages = Append(@,
                               Msg("assistant", AgentResponse(out), FALSE)),
                           !.conversation_context.message_count = @ + 1],
                call, FALSE, TRUE)
       ELSE RunResult(s1, call, FALSE, TRUE)

\* display_chat_section
DisplayChatSection(s, prev_call, greet_out, prompt, turn_out) ==
    IF s.selected_agent = None
      THEN RunResult(s, prev_call, FALSE, FALSE)
    ELSE IF s.chat_alias_id = Unset /\ (s.messages = <<>> \/ prompt # NoPrompt)
      \* st.session_state.chat_alias_id raises AttributeError
      THEN RunResult(s, prev_call, TRUE, FALSE)
    ELSE IF s.messages = <<>>
      THEN LET call == InvokeRequest(s, Hello, s.messages)
           IN IF greet_out = "other_error"
                THEN RunResult(s, call, TRUE, FALSE)
                ELSE LET s1 == [s EXCEPT
                                  !.messages = Append(@,
                                      Msg("assistant", AgentResponse(greet_out), FALSE)),
                                  !.conversation_context.message_count = @ + 1,
                                  !.conversation_context.current_agent = s.selected_agent]
                     IN IF prompt = NoPrompt
                          THEN RunResult(s1, call, FALSE, TRUE)
                          ELSE ChatTurn(s1, prompt, turn_out)
    ELSE IF prompt = NoPrompt
      THEN RunResult(s, prev_call, FALSE, TRUE)
      ELSE ChatTurn(s, prompt, turn_out)

\* display_agents_section, lines 336-341: the shown option becomes the agent
AgentsAfterSelect(s, option) ==
    IF s.selected_agent = None \/ s.selected_agent # option
      THEN [s EXCEPT !.selected_agent = option]
      ELSE s

\* the widgets of the alias part of the agents section lose their state
NoAliasWidgets(s) ==
    [s EXCEPT !.use_latest_toggle = None, !.agent_section_alias = None,
              !.use_version_toggle = None, !.chat_version = None]

\* display_agents_section, lines 349-412: the agent has aliases. A widget
\* holds its own value while it stays rendered; st.rerun() runs the script
\* again, which then finds the widget equal to the stored state.
AliasesListed(s, aliases) ==
    LET newest == newest_alias(aliases).agentAliasId
        s1 == IF s.use_latest_alias = Unset
                THEN [s EXCEPT !.use_latest_alias = "True", !.chat_alias_id = newest]
                ELSE s
        previous_state == s1.use_latest_alias
        current_state == IF s1.use_latest_toggle # None
                           THEN s1.use_latest_toggle ELSE previous_state
        s2 == [s1 EXCEPT
                 !.use_latest_toggle = current_state,
                 !.use_version_toggle = None,
                 !.chat_version = None,
                 !.use_latest_alias = current_state,
                 !.chat_alias_id =
                     IF current_state # previous_state /\ current_state = "True"
                       THEN newest ELSE @]
    IN IF s2.use_latest_alias = "True"
         THEN [s2 EXCEPT !.chat_alias_id = newest, !.agent_section_alias = None]
         ELSE
           LET alias_options == [i \in DOMAIN aliases |-> aliases[i].agentAliasId]
               hits == {i \in DOMAIN aliases : alias_options[i] = s2.chat_alias_id}
               current_index ==
                   IF hits # {} THEN CHOOSE i \in hits : \A j \in hits : i <= j
                   ELSE 1
               previous == IF s2.previous_alias_selection = Unset
                             THEN alias_options[current_index]
                             ELSE s2.previous_alias_selection
               selected_alias_option ==
                   IF \E i \in DOMAIN aliases : alias_options[i] = s2.agent_section_alias
                     THEN s2.agent_section_alias
                     ELSE alias_options[current_index]
           IN IF selected_alias_option # previous
                THEN [s2 EXCEPT !.previous_alias_selection = selected_alias_option,
                                !.agent_section_alias = selected_alias_option,
                                !.chat_alias_id = selected_alias_option]
                ELSE [s2 EXCEPT !.previous_alias_selection = previous,
                                !.agent_section_alias = selected_alias_option]

\* display_agents_section, lines 413-447: the agent has no aliases
NoAliasesListed(s) ==
    LET s1 == IF s.use_version = Unset
                THEN [s EXCEPT !.use_version = "True", !.chat_alias_id = "DRAFT"]
                ELSE s
        previous_version_state == s1.use_version
        current_version_state == IF s1.use_version_toggle # None
                                   THEN s1.use_version_toggle
                                   ELSE previous_version_state
        s2 == [s1 EXCEPT
                 !.use_version_toggle = current_version_state,
                 !.use_latest_toggle = None,
                 !.agent_section_alias = None,
                 !.use_version = current_version_state,
                 !.chat_alias_id =
                     IF current_version_state = previous_version_state THEN @
                     ELSE IF current_version_state = "True" THEN "DRAFT"
                     ELSE None]
    IN IF s2.use_version = "True"
         THEN LET version_input ==
                      IF s2.chat_version # None THEN s2.chat_version
                      ELSE IF s2.chat_alias_id \in {None, Unset} THEN "DRAFT"
                      ELSE s2.chat_alias_id
              IN [s2 EXCEPT !.chat_version = version_input,
                            !.chat_alias_id = version_input]
         ELSE [s2 EXCEPT !.chat_version = None, !.chat_alias_id = None]

\* display_agents_section, lines 343-450: the aliases of the selected agent
AgentAliasSection(s) ==
    LET aliases == list_agent_aliases(s.selected_agent)
    IN IF aliases # <<>> THEN AliasesListed(s, aliases) ELSE NoAliasesListed(s)

\* display_agents_section, lines 284-450; s.agent_selection is the value of
\* the select box (None: the widget has no state yet and shows its index)
DisplayAgentsSection(s) ==
    IF s.agents = <<>> THEN NoAliasWidgets([s EXCEPT !.agent_selection = None])
    ELSE AgentAliasSection(
      LET found == {i \in 1..Len(s.agents) : s.agents[i] = s.selected_agent}
          current_index ==
              IF s.selected_agent # None /\ found # {}
                THEN CHOOSE i \in found : \A j \in found : i <= j
                ELSE 1
          shown == s.agents[current_index]
          previous == IF s.previous_agent_selection = None
                        THEN shown ELSE s.previous_agent_selection
          option == IF s.agent_selection # None THEN s.agent_selection ELSE shown
      IN IF option # previous
           THEN LET previous_agent_name == s.selected_agent
                    s1 == [s EXCEPT
                             !.previous_agent_selection = option,
                             !.agent_selection = option,
                             !.selected_agent = option,
                             !.conversation_context.last_agent_switch = TRUE,
                             !.conversation_context.current_agent = option,
                             !.messages =
                                 IF previous_agent_name # None /\ @ # <<>>
                                   THEN Append(@, SwitchNote(previous_agent_name, option))
                                   ELSE @]
                \* st.rerun(): the section runs again and finds no change
                IN AgentsAfterSelect(s1, option)
           ELSE AgentsAfterSelect(
                    [s EXCEPT !.previous_agent_selection = previous,
                              !.agent_selection = option], option))

\* main(), after the sidebar: the page of this script run. A widget that is
\* not rendered loses its state.
Main(s, prev_call, greet_out, prompt, turn_out) ==
    IF ~s.is_logged_in
      THEN RunResult(NoAliasWidgets([s EXCEPT !.agent_selection = None]),
                     prev_call, FALSE, FALSE)
    ELSE IF s.selected_page = "Agents"
      THEN RunResult(DisplayAgentsSection(s), prev_call, FALSE, FALSE)
    ELSE IF s.selected_page = "Chat"
      THEN DisplayChatSection(NoAliasWidgets([s EXCEPT !.agent_selection = None]),
                              prev_call, greet_out, prompt, turn_out)
    ELSE RunResult(NoAliasWidgets([s EXCEPT !.agent_selection = None]),
                   prev_call, FALSE, FALSE)

\* the outcomes of an invoke_agent call made from s: agentAliasId=None does
\* not pass the client's parameter validation, which raises an exception
\* that is not a ClientError
OutcomesOf(s) ==
    IF s.chat_alias_id = None THEN {"other_error"} ELSE InvokeOutcomes

\* the outcomes of the greeting call of a run that starts in s: a run that
\* sends no greeting has none to choose
Greetings(s) ==
    IF s.is_logged_in /\ s.selected_page = "Chat" /\ s.selected_agent # None
       /\ s.messages = <<>>
      THEN OutcomesOf(s) ELSE {"reply"}

ScriptRun(s, greet_out, prompt, turn_out) ==
    LET r == Main(s, agent_call, greet_out, prompt, turn_out)
    IN /\ session_state' = r.s
       /\ agent_call' = r.call
       /\ run_error' = r.error
       /\ chat_input_shown' = r.shown

Init ==
    /\ UiIdle
    /\ history = <<>>
    /\ current_input = <<>>
    /\ payload = NoText
    /\ prev_payload = NoText
    /\ calls = 0
    /\ now = 0
    /\ UploadIdle
    /\ SyncIdle
    /\ LambdaIdle
    /\ InvokeIdle
    /\ SanitizeIdle

\* the error codes test_credentials looks for, in the order it tests them
CredentialMarkers ==
    <<"InvalidClientTokenId", "SignatureDoesNotMatch", "AccessDenied",
      "ExpiredTokenException">>

\* str(e) of an exception: the words of the message
ErrorWords == {CredentialMarkers[i] : i \in 1..4} \cup {"other"}

ErrorMessages(n) == UNION {[1..k -> ErrorWords] : k \in 1..n}

NoError == <<>>

\* "word" in error_msg
Contains(error_msg, word) == \E i \in DOMAIN error_msg : error_msg[i] = word

\* a classification that tests AccessDenied first
ClassifyError_AccessFirst(error_msg) ==
    IF Contains(error_msg, "AccessDenied")
      THEN <<"Access Denied - Please check your IAM permissions">>
    ELSE IF Contains(error_msg, "InvalidClientTokenId")
      THEN <<"Invalid Access Key ID - Please check your credentials">>
    ELSE IF Contains(error_msg, "SignatureDoesNotMatch")
      THEN <<"Invalid Secret Access Key - Please check your credentials">>
    ELSE IF Contains(error_msg, "ExpiredTokenException")
      THEN <<"Credentials have expired - Please refresh your credentials">>
    ELSE error_msg

\* test_credentials, lines 120-129
ClassifyError(error_msg) ==
    IF Contains(error_msg, "InvalidClientTokenId")
      THEN <<"Invalid Access Key ID - Please check your credentials">>
    ELSE IF Contains(error_msg, "SignatureDoesNotMatch")
      THEN <<"Invalid Secret Access Key - Please check your credentials">>
    ELSE IF Contains(error_msg, "AccessDenied")
      THEN <<"Access Denied - Please check your IAM permissions">>
    ELSE IF Contains(error_msg, "ExpiredTokenException")
      THEN <<"Credentials have expired - Please refresh your credentials">>
    ELSE error_msg

\* test_credentials: sts_error is the message of the exception of the STS
\* calls (NoError: none), listed is what list_agents returned ([] when it
\* failed: list_agents handles its own exceptions)
test_credentials(sts_error, listed) ==
    IF sts_error = NoError
      THEN [status |-> "success", agent_count |-> Len(listed)]
      ELSE [status |-> "error", error |-> ClassifyError(sts_error)]

\* a connect that logs in and does not keep the client
AfterTest_NoClient(s, test_result, found, has_aliases) ==
    IF test_result.status = "error"
      THEN s
      ELSE [s EXCEPT
              !.agents = found,
              !.is_logged_in = TRUE,
              !.selected_agent =
                  IF @ = None /\ found # <<>> /\ has_aliases
                    THEN found[1] ELSE @,
              !.chat_alias_id =
                  IF s.selected_agent = None /\ found # <<>> /\ has_aliases
                    THEN newest_alias(list_agent_aliases(found[1])).agentAliasId
                    ELSE @]

\* setup_sidebar, lines 113-160: after the credential test
AfterTest(s, test_result, found, has_aliases) ==
    IF test_result.status = "error"
      THEN s
      ELSE [s EXCEPT
              !.chatbot = "client",
              !.agents = found,
              !.is_logged_in = TRUE,
              !.selected_agent =
                  IF @ = None /\ found # <<>> /\ has_aliases
                    THEN found[1] ELSE @,
              !.chat_alias_id =
                  IF s.selected_agent = None /\ found # <<>> /\ has_aliases
                    THEN newest_alias(list_agent_aliases(found[1])).agentAliasId
                    ELSE @]

\* setup_sidebar, lines 89-181: "Connect to AWS", with the exception messages
\* the STS calls can raise drawn from errors. The format checks of lines
\* 91-100 may refuse the credentials before any call is made.
Connect(errors) ==
    /\ ~session_state.is_logged_in
    /\ \/ /\ credential_test' = NoResult
          /\ ScriptRun(session_state, "reply", NoPrompt, "reply")
       \/ \E sts_error \in errors :
            LET test_result == test_credentials(sts_error, <<>>)
            IN /\ credential_test' = [exception |-> sts_error, result |-> test_result]
               /\ ScriptRun(AfterTest(session_state, test_result, <<>>, FALSE),
                            "reply", NoPrompt, "reply")
       \/ \E listed \in {<<>>, AllAgents}, found \in {<<>>, AllAgents},
             has_aliases \in BOOLEAN :
            LET test_result == test_credentials(NoError, listed)
                s == AfterTest(session_state, test_result, found, has_aliases)
            IN /\ credential_test' = [exception |-> NoError, result |-> test_result]
               /\ \E greet_out \in Greetings(s) :
                    ScriptRun(s, greet_out, NoPrompt, greet_out)
    /\ UNCHANGED <<uuid_count, ctxVars, now, upVars, syncVars, lamVars, invVars, sanVars>>

\* the exception messages of the chat UI's runs
UiErrors == {<<"AccessDenied">>, <<"other">>}

ConnectToAWS == Connect(UiErrors)

\* the connect handler with every exception message of up to MaxErr words
ConnectAnyError == Connect(ErrorMessages(MaxErr))

\* setup_sidebar, lines 199-216: "Disconnect"
Disconnect ==
    /\ session_state.is_logged_in
    /\ uuid_count < MaxUuids
    /\ uuid_count' = uuid_count + 1
    /\ ScriptRun(
         [session_state EXCEPT
            !.is_logged_in = FALSE,
            !.chatbot = None,
            !.agents = <<>>,
            !.selected_agent = None,
            !.messages = <<>>,
            !.session_id = uuid_count + 1,
            !.conversation_context = FreshContext(None)],
         "reply", NoPrompt, "reply")
    /\ credential_test' = NoResult
    /\ UNCHANGED <<ctxVars, now, upVars, syncVars, lamVars, invVars, sanVars>>

\* a "New Session" that clears the messages and keeps the session id
NewSession_KeepId ==
    /\ session_state.is_logged_in
    /\ uuid_count < MaxUuids
    /\ uuid_count' = uuid_count + 1
    /\ LET s == [session_state EXCEPT
                   !.messages = <<>>,
                   !.conversation_context = FreshContext(session_state.selected_agent)]
       IN \E greet_out \in Greetings(s) : ScriptRun(s, greet_out, NoPrompt, greet_out)
    /\ credential_test' = NoResult
    /\ UNCHANGED <<ctxVars, now, upVars, syncVars, lamVars, invVars, sanVars>>

\* setup_sidebar, lines 258-268: "New Session"
NewSession ==
    /\ session_state.is_logged_in
    /\ uuid_count < MaxUuids
    /\ uuid_count' = uuid_count + 1
    /\ LET s == [session_state EXCEPT
                   !.session_id = uuid_count + 1,
                   !.messages = <<>>,
                   !.conversation_context = FreshContext(session_state.selected_agent)]
       IN \E greet_out \in Greetings(s) : ScriptRun(s, greet_out, NoPrompt, greet_out)
    /\ credential_test' = NoResult
    /\ UNCHANGED <<ctxVars, now, upVars, syncVars, lamVars, invVars, sanVars>>

\* setup_sidebar, lines 54-55 and 224-230: the navigation radio
Navigate ==
    /\ session_state.is_logged_in
    /\ \E page \in Pages \ {session_state.selected_page} :
         LET s == [session_state EXCEPT !.selected_page = page]
         IN \E greet_out \in Greetings(s) : ScriptRun(s, greet_out, NoPrompt, greet_out)
    /\ credential_test' = NoResult
    /\ UNCHANGED <<uuid_count, ctxVars, now, upVars, syncVars, lamVars, invVars, sanVars>>

\* display_agents_section, lines 304-334: another agent is chosen
PickAgent ==
    /\ session_state.is_logged_in
    /\ session_state.selected_page = "Agents"
    /\ session_state.agent_selection # None
    /\ Len(session_state.messages) < MaxMsgs
    /\ \E i \in 1..Len(session_state.agents) :
         /\ session_state.agents[i] # session_state.agent_selection
         /\ ScriptRun([session_state EXCEPT !.agent_selection = session_state.agents[i]],
                      "reply", NoPrompt, "reply")
    /\ credential_test' = NoResult
    /\ UNCHANGED <<uuid_count, ctxVars, now, upVars, syncVars, lamVars, invVars, sanVars>>

Flip(state) == IF state = "True" THEN "False" ELSE "True"

\* display_agents_section, lines 366-380: the "Use Latest Alias" toggle
ToggleLatest ==
    /\ session_state.is_logged_in
    /\ session_state.selected_page = "Agents"
    /\ session_state.use_latest_toggle # None
    /\ ScriptRun([session_state EXCEPT !.use_latest_toggle = Flip(@)],
                 "reply", NoPrompt, "reply")
    /\ credential_test' = NoResult
    /\ UNCHANGED <<uuid_count, ctxVars, now, upVars, syncVars, lamVars, invVars, sanVars>>

\* display_agents_section, lines 399-412: another alias is chosen
SelectAlias ==
    /\ session_state.is_logged_in
    /\ session_state.selected_page = "Agents"
    /\ session_state.agent_section_alias # None
    /\ LET aliases == list_agent_aliases(session_state.selected_agent)
       IN \E i \in DOMAIN aliases :
            /\ aliases[i].agentAliasId # session_state.agent_section_alias
            /\ ScriptRun([session_state EXCEPT
                            !.agent_section_alias = aliases[i].agentAliasId],
                         "reply", NoPrompt, "reply")
    /\ credential_test' = NoResult
    /\ UNCHANGED <<uuid_count, ctxVars, now, upVars, syncVars, lamVars, invVars, sanVars>>

\* display_agents_section, lines 420-434: the version checkbox
ToggleVersion ==
    /\ session_state.is_logged_in
    /\ session_state.selected_page = "Agents"
    /\ session_state.use_version_toggle # None
    /\ ScriptRun([session_state EXCEPT !.use_version_toggle = Flip(@)],
                 "reply", NoPrompt, "reply")
    /\ credential_test' = NoResult
    /\ UNCHANGED <<uuid_count, ctxVars, now, upVars, syncVars, lamVars, invVars, sanVars>>

\* display_agents_section, lines 436-445: the "Version:" field is edited
EditVersion ==
    /\ session_state.is_logged_in
    /\ session_state.selected_page = "Agents"
    /\ session_state.chat_version # None
    /\ \E version \in VersionInputs \ {session_state.chat_version} :
         ScriptRun([session_state EXCEPT !.chat_version = version],
                   "reply", NoPrompt, "reply")
    /\ credential_test' = NoResult
    /\ UNCHANGED <<uuid_count, ctxVars, now, upVars, syncVars, lamVars, invVars, sanVars>>

\* display_chat_section, lines 579-610: a prompt is submitted
SubmitPrompt ==
    /\ chat_input_shown
    /\ Len(session_state.messages) + 2 <= MaxMsgs
    /\ \E prompt \in Prompts, greet_out \in Greetings(session_state),
          turn_out \in OutcomesOf(session_state) :
         ScriptRun(session_state, greet_out, prompt, turn_out)
    /\ credential_test' = NoResult
    /\ UNCHANGED <<uuid_count, ctxVars, now, upVars, syncVars, lamVars, invVars, sanVars>>

\* any other rerun of the script (a widget without a handler of its own)
Rerun ==
    /\ session_state.is_logged_in
    /\ \E greet_out \in Greetings(session_state) :
         ScriptRun(session_state, greet_out, NoPrompt, greet_out)
    /\ credential_test' = NoResult
    /\ UNCHANGED <<uuid_count, ctxVars, now, upVars, syncVars, lamVars, invVars, sanVars>>

Next ==
    \/ ConnectToAWS
    \/ Disconnect
    \/ NewSession
    \/ Navigate
    \/ PickAgent
    \/ SubmitPrompt
    \/ Rerun

Spec == Init /\ [][Next]_vars

\* the agents page with its alias widgets, and the chat page's greeting
NextAlias ==
    \/ ConnectToAWS
    \/ Disconnect
    \/ Navigate
    \/ PickAgent
    \/ ToggleLatest
    \/ SelectAlias
    \/ ToggleVersion
    \/ EditVersion

SpecAlias == Init /\ [][NextAlias]_vars

\* the connect handler on its own: connect attempts and disconnects
NextConnect ==
    \/ ConnectAnyError
    \/ Disconnect

SpecConnect == Init /\ [][NextConnect]_vars

(***************************************************************************)
(* Inputs of the builder: message i carries the content ContentAt(i), so    *)
(* every message of a history is recognisable in the payload.               *)
(***************************************************************************)
Contents ==
    <<"hi", "hello", "note", "m4", "m5", "m6", "m7", "m8", "m9", "m10",
      "m11", "m12", "m13", "m14", "m15", "m16">>

ContentAt(i) == IF i <= Len(Contents) THEN <<Contents[i]>> ELSE <<"m">>

Inputs == {<<"bye">>, <<"x">>}

Kinds == [role : Roles, is_context : BOOLEAN]

Bases == {"user_first", "assistant_first", "notes"}

BaseKind(base, i) ==
    IF base = "notes" THEN [role |-> "system", is_context |-> TRUE]
    ELSE IF (base = "user_first") = (i % 2 = 1)
      THEN [role |-> "user", is_context |-> FALSE]
      ELSE [role |-> "assistant", is_context |-> FALSE]

MkHistory(base, n, dev) ==
    [i \in 1..n |->
        LET k == IF i \in DOMAIN dev THEN dev[i] ELSE BaseKind(base, i)
        IN [role |-> k.role, content |-> ContentAt(i), is_context |-> k.is_context]]

InitContext ==
    /\ \E n \in 0..MaxHist, base \in Bases :
         \E D \in {S \in SUBSET (1..n) : Cardinality(S) <= MaxOdd} :
           \E dev \in [D -> Kinds] :
             history = MkHistory(base, n, dev)
    /\ current_input \in Inputs
    /\ payload = NoText
    /\ prev_payload = NoText
    /\ calls = 0
    /\ UiIdle
    /\ now = 0
    /\ UploadIdle
    /\ SyncIdle
    /\ LambdaIdle
    /\ InvokeIdle
    /\ SanitizeIdle

\* CallBuildContext consuming the messages it reads (pop instead of a slice)
CallBuildContext_Consuming ==
    /\ calls < MaxCalls
    /\ payload' = build_conversation_context(history, current_input)
    /\ prev_payload' = payload
    /\ calls' = calls + 1
    /\ history' = SubSeq(history, 1, Len(history) - Len(RecentHistory(history)))
    /\ UNCHANGED <<current_input, uiVars, now, upVars, syncVars, lamVars, invVars, sanVars>>

\* a direct call of _build_conversation_context
CallBuildContext ==
    /\ calls < MaxCalls
    /\ payload' = build_conversation_context(history, current_input)
    /\ prev_payload' = payload
    /\ calls' = calls + 1
    /\ UNCHANGED <<history, current_input, uiVars, now, upVars, syncVars, lamVars, invVars, sanVars>>

\* the call made by invoke_agent
CallInvokeAgentContext ==
    /\ calls < MaxCalls
    /\ payload' = invoke_agent_context(history, current_input)
    /\ prev_payload' = payload
    /\ calls' = calls + 1
    /\ UNCHANGED <<history, current_input, uiVars, now, upVars, syncVars, lamVars, invVars, sanVars>>

NextContext ==
    \/ CallBuildContext
    \/ CallInvokeAgentContext

SpecContext == InitContext /\ [][NextContext]_vars

(***************************************************************************)
(* utils.sanitize_filename. A file name is a sequence of characters.        *)
(***************************************************************************)
InvalidChars == {"<", ">", ":", "\"", "/", "\\", "|", "?", "*"}

\* a replacement loop whose character list lost the backslash
ReplaceInvalid_NoBackslash(filename) ==
    [i \in 1..Len(filename) |->
        IF filename[i] \in InvalidChars \ {"\\"} THEN "_" ELSE filename[i]]

\* filename.replace(char, '_') for every invalid character
ReplaceInvalid(filename) ==
    [i \in 1..Len(filename) |->
        IF filename[i] \in InvalidChars THEN "_" ELSE filename[i]]

\* a strip that removes one character at each end and stops
StripDotsSpaces_Once(name) ==
    LET l == IF name # <<>> /\ Head(name) \in {".", " "} THEN Tail(name) ELSE name
    IN IF l # <<>> /\ l[Len(l)] \in {".", " "} THEN SubSeq(l, 1, Len(l) - 1) ELSE l

\* filename.strip('. ')
RECURSIVE StripDotsSpaces(_)
StripDotsSpaces(name) ==
    IF name = <<>> THEN name
    ELSE IF Head(name) \in {".", " "} THEN StripDotsSpaces(Tail(name))
    ELSE IF name[Len(name)] \in {".", " "}
      THEN StripDotsSpaces(SubSeq(name, 1, Len(name) - 1))
    ELSE name

\* hex is uuid.uuid4().hex[:8]
sanitize_filename(filename, hex) ==
    LET stripped == StripDotsSpaces(ReplaceInvalid(filename))
    IN IF stripped = <<>> THEN <<"unnamed_file_">> \o hex ELSE stripped

(***************************************************************************)
(* AWSAgentChatbot.upload_multiple_files_to_s3: one action per iteration    *)
(* of the loop, then the summary after it.                                  *)
(***************************************************************************)
FileNames == {<<"a">>, <<"b">>, <<"c">>}

HexSamples == {<<"0", "1", "2", "3", "4", "5", "6", "7">>,
               <<"8", "9", "a", "b", "c", "d", "e", "f">>}

S3BucketFolder == "upload_files"

\* how upload_fileobj ends: it returns, raises ClientError, raises another exception
UploadOutcomes == {"ok", "client_error", "other_error"}

Batches(n) == UNION {[1..k -> FileNames] : k \in 0..n}

InitUpload ==
    /\ files_list \in Batches(MaxBatch)
    /\ up_pc = "loop"
    /\ up_i = 1
    /\ results = <<>>
    /\ upload_log = <<>>
    /\ s3_objects = {}
    /\ successful_uploads = 0
    /\ failed_uploads = 0
    /\ now = 0
    /\ history = <<>>
    /\ current_input = <<>>
    /\ payload = NoText
    /\ prev_payload = NoText
    /\ calls = 0
    /\ UiIdle
    /\ SyncIdle
    /\ LambdaIdle
    /\ InvokeIdle
    /\ SanitizeIdle

\* lines 203-220: the entry results[file_obj.name] after the attempt
UploadResult(out, unique_filename) ==
    IF out = "ok"
      THEN [status |-> "success", uploaded_name |-> unique_filename,
            message |-> "Uploaded successfully as"]
    ELSE IF out = "client_error"
      THEN [status |-> "error", uploaded_name |-> NoResult,
            message |-> "Failed to upload"]
      ELSE [status |-> "error", uploaded_name |-> NoResult,
            message |-> "Unexpected error"]

\* results[name] = entry
SetItem(dict, name, entry) ==
    [k \in (DOMAIN dict) \cup {name} |-> IF k = name THEN entry ELSE dict[k]]

\* lines 175-220: the body of the loop for file up_i
UploadFile ==
    /\ up_pc = "loop"
    /\ up_i <= Len(files_list)
    /\ \E t \in now..MaxClock, hex \in HexSamples, out \in UploadOutcomes :
         LET name == files_list[up_i]
             sanitized_filename == sanitize_filename(name, hex)
             unique_filename == [folder |-> S3BucketFolder, timestamp |-> t,
                                 name |-> sanitized_filename]
         IN /\ now' = t
            /\ upload_log' = Append(upload_log,
                   [file |-> up_i, name |-> name, key |-> unique_filename,
                    outcome |-> out])
            /\ s3_objects' = IF out = "ok"
                               THEN s3_objects \cup {unique_filename}
                               ELSE s3_objects
            /\ results' = SetItem(results, name, UploadResult(out, unique_filename))
    /\ up_i' = up_i + 1
    /\ UNCHANGED <<files_list, up_pc, successful_uploads, failed_uploads>>
    /\ UNCHANGED <<ctxVars, uiVars, syncVars, lamVars, invVars, sanVars>>

\* lines 222-235: the summary and the return
UploadSummary ==
    /\ up_pc = "loop"
    /\ up_i > Len(files_list)
    /\ LET total_files == Len(files_list)
           successful == Cardinality({k \in DOMAIN results :
                                         results[k].status = "success"})
       IN /\ successful_uploads' = successful
          /\ failed_uploads' = total_files - successful
    /\ up_pc' = "done"
    /\ UNCHANGED <<files_list, up_i, results, upload_log, s3_objects, now>>
    /\ UNCHANGED <<ctxVars, uiVars, syncVars, lamVars, invVars, sanVars>>

NextUpload ==
    \/ UploadFile
    \/ UploadSummary

SpecUpload == InitUpload /\ [][NextUpload]_vars

(***************************************************************************)
(* sync_knowledge_base and get_data_source_id of both clients:              *)
(* AWSAgentChatbot (aws_agent_chatbot.py:237-269) and AWSAgent              *)
(* (aws_agent.py:124-167). The argument dataSourceId=get_data_source_id()   *)
(* is evaluated first, then start_ingestion_job is called with it.          *)
(***************************************************************************)
KnowledgeBaseId == "CKXZIGUZF8"

DataSourceIds == {"DS1", "DS2"}

\* how a call of the bedrock-agent client ends
ApiOutcomes == {"ok", "client_error", "other_error"}

\* get_data_source_id of AWSAgent returns this dict on a ClientError
ErrorDict == "statusCode 500 dict"

SourceLists(n) == UNION {[1..k -> DataSourceIds] : k \in 0..n}

\* a lookup that takes the last listed data source
SyncGetDataSourceId_Last ==
    /\ sync_pc = "call"
    /\ \E out \in ApiOutcomes :
       /\ list_outcome' = out
       /\ IF out = "ok"
           THEN /\ data_source_id' = IF data_sources # <<>>
                                       THEN data_sources[Len(data_sources)] ELSE None
                /\ sync_pc' = "start"
                /\ UNCHANGED sync_result
         ELSE IF out = "client_error"
           THEN /\ data_source_id' = IF client = "chatbot" THEN None ELSE ErrorDict
                /\ sync_pc' = "start"
                /\ UNCHANGED sync_result
           ELSE /\ sync_pc' = "raised"
                /\ sync_result' = [kind |-> "exception"]
                /\ UNCHANGED data_source_id
    /\ UNCHANGED <<client, data_sources, ingestion_calls>>
    /\ UNCHANGED <<ctxVars, uiVars, now, upVars, lamVars, invVars, sanVars>>

\* get_data_source_id: list_data_sources ended with out
SyncGetDataSourceId ==
    /\ sync_pc = "call"
    /\ \E out \in ApiOutcomes :
       /\ list_outcome' = out
       /\ IF out = "ok"
           THEN /\ data_source_id' = IF data_sources # <<>>
                                       THEN data_sources[1] ELSE None
                /\ sync_pc' = "start"
                /\ UNCHANGED sync_result
         ELSE IF out = "client_error"
           THEN /\ data_source_id' = IF client = "chatbot" THEN None ELSE ErrorDict
                /\ sync_pc' = "start"
                /\ UNCHANGED sync_result
           \* no handler for it: it leaves get_data_source_id and
           \* sync_knowledge_base
           ELSE /\ sync_pc' = "raised"
                /\ sync_result' = [kind |-> "exception"]
                /\ UNCHANGED data_source_id
    /\ UNCHANGED <<client, data_sources, ingestion_calls>>
    /\ UNCHANGED <<ctxVars, uiVars, now, upVars, lamVars, invVars, sanVars>>

\* what start_ingestion_job can do with this dataSourceId: a value that is
\* not a data source id is refused, by the SDK's parameter validation (not a
\* ClientError) or by the service (a ClientError)
StartOutcomes(id) ==
    IF id \in DataSourceIds THEN ApiOutcomes ELSE {"client_error", "other_error"}

\* what sync_knowledge_base returns when it returns
SyncReturn(who, out) ==
    IF out = "ok"
      THEN IF who = "chatbot"
             THEN [kind |-> "job_id", job_id |-> "job-1"]
             ELSE [kind |-> "text_body", status |-> "success",
                   ingestion_Job_Id |-> "job-1"]
      ELSE IF who = "chatbot"
             THEN [kind |-> "None"]
             ELSE [kind |-> "status_code", statusCode |-> 500]

\* sync_knowledge_base: the start_ingestion_job call and the return
SyncStartIngestionJob ==
    /\ sync_pc = "start"
    /\ ingestion_calls' = Append(ingestion_calls,
           [knowledgeBaseId |-> KnowledgeBaseId, dataSourceId |-> data_source_id])
    /\ \E out \in StartOutcomes(data_source_id) :
         IF out = "other_error"
           THEN /\ sync_pc' = "raised"
                /\ sync_result' = [kind |-> "exception"]
           ELSE /\ sync_pc' = "done"
                /\ sync_result' = SyncReturn(client, out)
    /\ UNCHANGED <<client, data_sources, list_outcome, data_source_id>>
    /\ UNCHANGED <<ctxVars, uiVars, now, upVars, lamVars, invVars, sanVars>>

InitSync ==
    /\ client \in {"chatbot", "lambda"}
    /\ data_sources \in SourceLists(MaxSources)
    /\ sync_pc = "call"
    /\ list_outcome = "unset"
    /\ data_source_id = "unset"
    /\ ingestion_calls = <<>>
    /\ sync_result = NoResult
    /\ now = 0
    /\ history = <<>>
    /\ current_input = <<>>
    /\ payload = NoText
    /\ prev_payload = NoText
    /\ calls = 0
    /\ UiIdle
    /\ UploadIdle
    /\ LambdaIdle
    /\ InvokeIdle
    /\ SanitizeIdle

NextSync ==
    \/ SyncGetDataSourceId
    \/ SyncStartIngestionJob

SpecSync == InitSync /\ [][NextSync]_vars

(***************************************************************************)
(* The serverless save handler: lambda_function.py and AWSAgent.save_file.  *)
(* A file name is <<stem, extension>> (or <<stem>>, or empty); a JSON text  *)
(* is its sequence of tokens, white space included.                         *)
(***************************************************************************)
ReservedName == <<"application_inventory", ".json">>

LambdaFileNames ==
    {ReservedName, <<"data", ".json">>, <<"report", ".md">>, <<"tree", ".xml">>,
     <<"notes", ".txt">>, <<"noext">>, <<>>}

\* str.endswith
EndsWith(name, ext) == name # <<>> /\ name[Len(name)] = ext

\* mimetypes.guess_type(file_name)[0]
GuessType(name) ==
    IF EndsWith(name, ".json") THEN "application/json"
    ELSE IF EndsWith(name, ".md") THEN "text/markdown"
    ELSE IF EndsWith(name, ".xml") THEN "text/xml"
    ELSE IF EndsWith(name, ".txt") THEN "text/plain"
    ELSE None

\* a resolver that asks the standard lookup first and pins only what it
\* does not know
get_content_type_LookupFirst(name) ==
    LET content_type == GuessType(name)
    IN IF content_type # None THEN content_type
       ELSE IF EndsWith(name, ".md") THEN "text/markdown"
       ELSE IF EndsWith(name, ".json") THEN "application/json"
       ELSE IF EndsWith(name, ".xml") THEN "application/xml"
       ELSE "application/octet-stream"

\* lambda_function.get_content_type
get_content_type(name) ==
    LET content_type == GuessType(name)
    IN IF EndsWith(name, ".md") THEN "text/markdown"
       ELSE IF EndsWith(name, ".json") THEN "application/json"
       ELSE IF EndsWith(name, ".xml") THEN "application/xml"
       ELSE IF content_type # None THEN content_type
       ELSE "application/octet-stream"

WhiteSpace == {" ", "\n", "\n  "}

IsToken(a) == a \notin WhiteSpace

\* the JSON documents of the model, as token sequences without white space
JsonDocs == {<<"{", "}">>, <<"{", "\"a\"", ":", "1", "}">>}

\* json.loads: ok is FALSE when it raises
json_loads(text) ==
    LET tokens == SelectSeq(text, IsToken)
    IN IF tokens \in JsonDocs
         THEN [ok |-> TRUE, value |-> tokens]
         ELSE [ok |-> FALSE, value |-> <<>>]

\* a dump without the indent argument
json_dumps_Compact(value) ==
    IF Len(value) = 5
      THEN <<value[1], value[2], value[3], " ", value[4], value[5]>>
      ELSE value

\* json.dumps(value, indent=2)
json_dumps_indent2(value) ==
    IF Len(value) = 5
      THEN <<value[1], "\n  ", value[2], value[3], " ", value[4], "\n", value[5]>>
      ELSE value

LambdaContents ==
    {<<>>, <<"{", "}">>, <<"{", " ", "\"a\"", ":", "1", "}">>, <<"{">>, <<"text">>}

\* the parameters lists of the events: none, a file name alone, a file name
\* and a content
ParameterLists ==
    {<<>>}
    \cup {<<[value |-> n]>> : n \in LambdaFileNames}
    \cup {<<[value |-> n], [value |-> c]>> : n \in LambdaFileNames, c \in LambdaContents}

\* the default of event.get("parameters", ...)
DefaultParameters == <<[value |-> <<"blank">>]>>

Events ==
    [actionGroup : {"ag"}, function : {"save"},
     has_parameters : {TRUE}, parameters : ParameterLists]
    \cup [actionGroup : {"ag"}, function : {"save"},
          has_parameters : {FALSE}, parameters : {<<>>}]

InitLambda ==
    /\ event \in Events
    /\ lam_pc = "receive"
    /\ invocation = 1
    /\ save_call = NoResult
    /\ s3_puts = <<>>
    /\ upload_response = NoResult
    /\ handler_result = NoResult
    /\ now \in 0..MaxClock
    /\ client = "lambda"
    /\ data_sources \in SourceLists(MaxSources)
    /\ sync_pc = "idle"
    /\ list_outcome = "unset"
    /\ data_source_id = "unset"
    /\ ingestion_calls = <<>>
    /\ sync_result = NoResult
    /\ history = <<>>
    /\ current_input = <<>>
    /\ payload = NoText
    /\ prev_payload = NoText
    /\ calls = 0
    /\ UiIdle
    /\ UploadIdle
    /\ InvokeIdle
    /\ SanitizeIdle

EventParameters(e) == IF e.has_parameters THEN e.parameters ELSE DefaultParameters

\* lambda_handler, lines 25-36: the event is read and the content validated
LambdaReceive ==
    /\ lam_pc = "receive"
    /\ LET parameters == EventParameters(event)
       IN IF Len(parameters) < 2
            \* parameters[0] or parameters[1] raises IndexError
            THEN /\ lam_pc' = "raised"
                 /\ handler_result' = [kind |-> "exception", error |-> "IndexError"]
          ELSE IF parameters[2].value = <<>>
            THEN /\ lam_pc' = "returned"
                 /\ handler_result' = [kind |-> "status_code", statusCode |-> 400]
            ELSE /\ lam_pc' = "save"
                 /\ UNCHANGED handler_result
    /\ UNCHANGED <<event, save_call, s3_puts, upload_response, invocation>>
    /\ UNCHANGED <<ctxVars, uiVars, now, upVars, syncVars, invVars, sanVars>>

SaveKey(timestamp, name) ==
    [folder |-> "save_data", timestamp |-> timestamp,
     name |-> IF name # <<>> THEN name ELSE <<"file">>]

ErrorBody == [kind |-> "text_body", status |-> "error", file_details |-> NoResult]

\* AWSAgent.save_file: the put_object call it makes (none when json.loads
\* raised) and the response body it returns
save_file(content, content_type, name, timestamp, put_out, url_out) ==
    LET is_json == name # <<>> /\ EndsWith(name, ".json")
        parsed == json_loads(content)
        body_content == IF is_json THEN json_dumps_indent2(parsed.value) ELSE content
        key == SaveKey(timestamp, name)
        put == [Key |-> key, Body |-> body_content, ContentType |-> content_type,
                stored |-> (put_out = "ok")]
    IN IF is_json /\ ~parsed.ok
         THEN [puts |-> <<>>, response |-> ErrorBody]
       ELSE IF put_out # "ok"
         THEN [puts |-> <<put>>, response |-> ErrorBody]
       ELSE [puts |-> <<put>>,
             response |->
                 [kind |-> "text_body", status |-> "success",
                  file_details |->
                      [name |-> key.name, size_bytes |-> Len(body_content),
                       type |-> content_type, location |-> key],
                  has_url |-> (url_out = "ok")]]

\* a handler that sends the reserved name to a save routine of its own
SaveRoutine_ByName(name) ==
    IF name = ReservedName THEN "save_inventory" ELSE "save_file"

\* the routine lambda_handler calls to save the file (line 52)
SaveRoutine(name) == "save_file"

\* a handler that starts the sync only when the save succeeded
SyncAfterSave_OnSuccess(response) ==
    IF response.status = "success" THEN "call" ELSE "skipped"

\* lambda_handler, lines 52-55: sync_knowledge_base is called next, whatever
\* save_file returned
SyncAfterSave(response) == "call"

\* lambda_handler, lines 38-55: the client is built, the file saved and
\* sync_knowledge_base entered
LambdaSave ==
    /\ lam_pc = "save"
    /\ \E put_out \in {"ok", "error"}, url_out \in {"ok", "error"} :
         LET parameters == EventParameters(event)
             name == parameters[1].value
             content == parameters[2].value
             content_type == get_content_type(name)
             saved == save_file(content, content_type, name, now, put_out, url_out)
         IN /\ save_call' = [kind |-> SaveRoutine(name), content |-> content,
                             content_type |-> content_type, file_name |-> name]
            /\ s3_puts' = s3_puts \o saved.puts
            /\ upload_response' = saved.response
            /\ sync_pc' = SyncAfterSave(saved.response)
    /\ lam_pc' = "sync"
    /\ UNCHANGED <<event, handler_result, invocation>>
    /\ UNCHANGED <<client, data_sources, list_outcome, data_source_id,
                   ingestion_calls, sync_result>>
    /\ UNCHANGED <<ctxVars, uiVars, now, upVars, invVars, sanVars>>

\* lambda_handler, lines 55-79: after sync_knowledge_base, the envelope
LambdaRespond ==
    /\ lam_pc = "sync"
    /\ sync_pc \in {"done", "raised"}
    /\ IF sync_pc = "raised"
         THEN /\ lam_pc' = "raised"
              /\ handler_result' = [kind |-> "exception", error |-> "sync"]
       ELSE IF sync_result.kind # "text_body"
         \* sync_response['TEXT'] raises KeyError
         THEN /\ lam_pc' = "raised"
              /\ handler_result' = [kind |-> "exception", error |-> "KeyError"]
         ELSE /\ lam_pc' = "returned"
              /\ handler_result' =
                     [kind |-> "envelope",
                      actionGroup |-> event.actionGroup,
                      function |-> event.function,
                      upload_result |-> upload_response,
                      sync_result |-> sync_result]
    /\ UNCHANGED <<event, save_call, s3_puts, upload_response, invocation>>
    /\ UNCHANGED <<ctxVars, uiVars, now, upVars, syncVars, invVars, sanVars>>

NextLambda ==
    \/ LambdaReceive
    \/ LambdaSave
    \/ SyncGetDataSourceId
    \/ SyncStartIngestionJob
    \/ LambdaRespond

SpecLambda == InitLambda /\ [][NextLambda]_vars

(***************************************************************************)
(* Several invocations of the handler, one after the other, on the same     *)
(* bucket: each builds its own AWSAgent, whose timestamp is the second of   *)
(* its construction.                                                        *)
(***************************************************************************)
\* events that carry a file name and a text
SaveEvents ==
    {e \in Events :
        /\ e.has_parameters
        /\ Len(e.parameters) = 2
        /\ e.parameters[1].value \in {<<"report", ".md">>, <<"notes", ".txt">>}
        /\ e.parameters[2].value = <<"text">>}

InitLambdaTwice ==
    /\ InitLambda
    /\ event \in SaveEvents
    /\ data_sources = <<"DS1">>

\* the next invocation: a new event, a new client, the same bucket
LambdaInvoke ==
    /\ lam_pc \in {"returned", "raised"}
    /\ invocation < MaxInvocations
    /\ invocation' = invocation + 1
    /\ event' \in SaveEvents
    /\ now' \in now..MaxClock
    /\ lam_pc' = "receive"
    /\ save_call' = NoResult
    /\ upload_response' = NoResult
    /\ handler_result' = NoResult
    /\ sync_pc' = "idle"
    /\ list_outcome' = "unset"
    /\ data_source_id' = "unset"
    /\ sync_result' = NoResult
    /\ UNCHANGED <<s3_puts, client, data_sources, ingestion_calls>>
    /\ UNCHANGED <<ctxVars, uiVars, upVars, invVars, sanVars>>

NextLambdaTwice ==
    \/ NextLambda
    \/ LambdaInvoke

SpecLambdaTwice == InitLambdaTwice /\ [][NextLambdaTwice]_vars

(***************************************************************************)
(* AWSAgentChatbot.invoke_agent called on its own: the request, then one    *)
(* step per event of response['completion'], then the return. Bytes are     *)
(* sequences of byte values in hexadecimal, text is a sequence of           *)
(* characters.                                                              *)
(***************************************************************************)
\* the UTF-8 encodings of the characters of the model
Utf8 == {<<"68">>, <<"69">>, <<"C3", "A9">>}

\* bytes.decode('utf-8') of one encoded character
DecodeChar(bytes) ==
    IF bytes = <<"68">> THEN "h"
    ELSE IF bytes = <<"69">> THEN "i"
    ELSE "e-acute"

\* bytes.decode('utf-8'): well-formed input, one or two bytes a character
RECURSIVE decode_utf8(_)
decode_utf8(bytes) ==
    IF bytes = <<>> THEN <<>>
    ELSE IF <<Head(bytes)>> \in Utf8
      THEN <<DecodeChar(<<Head(bytes)>>)>> \o decode_utf8(Tail(bytes))
      ELSE <<DecodeChar(SubSeq(bytes, 1, 2))>> \o decode_utf8(SubSeq(bytes, 3, Len(bytes)))

ChunkBytes == {<<>>, <<"68">>, <<"68", "69">>, <<"C3", "A9">>}

\* the events of a completion stream: a chunk with bytes, a chunk without
\* bytes (attribution only), an event without chunk (a trace)
StreamEvents ==
    [has_chunk : {TRUE}, has_bytes : {TRUE}, bytes : ChunkBytes]
    \cup {[has_chunk |-> TRUE, has_bytes |-> FALSE, bytes |-> <<>>],
          [has_chunk |-> FALSE, has_bytes |-> FALSE, bytes |-> <<>>]}

Streams(n) == UNION {[1..k -> StreamEvents] : k \in 0..n}

\* a loop body that puts the newest chunk first
AddEvent_Prepend(full, e) ==
    IF e.has_chunk /\ e.has_bytes THEN decode_utf8(e.bytes) \o full ELSE full

\* lines 312-315: the body of the loop over the events
AddEvent(full, e) ==
    IF e.has_chunk
      THEN IF e.has_bytes THEN full \o decode_utf8(e.bytes) ELSE full
      ELSE full

\* lines 319-321: the except clause
ErrorString == <<"Sorry, I encountered an error: ", "ClientError">>

InitInvoke ==
    /\ stream \in Streams(MaxStream)
    /\ inv_pc = "send"
    /\ inv_i = 1
    /\ full_response = <<>>
    /\ inv_failure = "none"
    /\ invoke_result = NoResult
    /\ history = <<>>
    /\ current_input \in Inputs
    /\ payload = NoText
    /\ prev_payload = NoText
    /\ calls = 0
    /\ now = 0
    /\ UiIdle
    /\ UploadIdle
    /\ SyncIdle
    /\ LambdaIdle
    /\ SanitizeIdle

\* how a failed call leaves invoke_agent: only ClientError has a handler
InvokeFailed(out) ==
    /\ inv_failure' = out
    /\ IF out = "client_error"
         THEN /\ inv_pc' = "returned"
              /\ invoke_result' = [kind |-> "str", text |-> ErrorString]
         ELSE /\ inv_pc' = "raised"
              /\ invoke_result' = [kind |-> "exception"]

\* lines 295-310: the payload is built and the request sent
InvokeSend ==
    /\ inv_pc = "send"
    /\ payload' = invoke_agent_context(history, current_input)
    /\ \E out \in ApiOutcomes :
         IF out = "ok"
           THEN /\ inv_pc' = "stream"
                /\ UNCHANGED <<inv_failure, invoke_result>>
           ELSE InvokeFailed(out)
    /\ UNCHANGED <<stream, inv_i, full_response>>
    /\ UNCHANGED <<history, current_input, prev_payload, calls>>
    /\ UNCHANGED <<uiVars, now, upVars, syncVars, lamVars, sanVars>>

\* lines 311-315: the stream delivers its next event, or fails
InvokeNextEvent ==
    /\ inv_pc = "stream"
    /\ inv_i <= Len(stream)
    /\ \E out \in ApiOutcomes :
         IF out = "ok"
           THEN /\ full_response' = AddEvent(full_response, stream[inv_i])
                /\ inv_i' = inv_i + 1
                /\ UNCHANGED <<inv_pc, inv_failure, invoke_result>>
           ELSE /\ InvokeFailed(out)
                /\ UNCHANGED <<inv_i, full_response>>
    /\ UNCHANGED stream
    /\ UNCHANGED <<ctxVars, uiVars, now, upVars, syncVars, lamVars, sanVars>>

\* line 317: the stream has ended
InvokeReturn ==
    /\ inv_pc = "stream"
    /\ inv_i > Len(stream)
    /\ inv_pc' = "returned"
    /\ invoke_result' = [kind |-> "str", text |-> full_response]
    /\ UNCHANGED <<stream, inv_i, full_response, inv_failure>>
    /\ UNCHANGED <<ctxVars, uiVars, now, upVars, syncVars, lamVars, sanVars>>

NextInvoke ==
    \/ InvokeSend
    \/ InvokeNextEvent
    \/ InvokeReturn

SpecInvoke == InitInvoke /\ [][NextInvoke]_vars

(***************************************************************************)
(* sanitize_filename called on its own, then called again on its result.    *)
(***************************************************************************)
NameChars == InvalidChars \cup {"a", ".", " "}

Names(n) == UNION {[1..k -> NameChars] : k \in 0..n}

InitSanitize ==
    /\ san_input \in Names(MaxName)
    /\ san_output = NoResult
    /\ san_prev = NoResult
    /\ san_pc = "call"
    /\ history = <<>>
    /\ current_input = <<>>
    /\ payload = NoText
    /\ prev_payload = NoText
    /\ calls = 0
    /\ now = 0
    /\ UiIdle
    /\ UploadIdle
    /\ SyncIdle
    /\ LambdaIdle
    /\ InvokeIdle

\* sanitize_filename(filename)
SanitizeCall ==
    /\ san_pc = "call"
    /\ \E hex \in HexSamples : san_output' = sanitize_filename(san_input, hex)
    /\ san_pc' = "again"
    /\ UNCHANGED <<san_input, san_prev>>
    /\ UNCHANGED <<ctxVars, uiVars, now, upVars, syncVars, lamVars, invVars>>

\* sanitize_filename(sanitize_filename(filename))
SanitizeAgain ==
    /\ san_pc = "again"
    /\ \E hex \in HexSamples : san_output' = sanitize_filename(san_output, hex)
    /\ san_prev' = san_output
    /\ san_pc' = "done"
    /\ UNCHANGED san_input
    /\ UNCHANGED <<ctxVars, uiVars, now, upVars, syncVars, lamVars, invVars>>

NextSanitize ==
    \/ SanitizeCall
    \/ SanitizeAgain

SpecSanitize == InitSanitize /\ [][NextSanitize]_vars

(***************************************************************************)
(* Claims about the conversation-context builder (SpecContext)              *)
(***************************************************************************)
\* the positions of the history inside its last-10 window
InWindow(h) == {i \in 1..Len(h) : i > Len(h) - 10}

Excluded(m) == m.role = "system" \/ m.is_context = TRUE

\* the retained positions of the window, in increasing order
RetainedIdx(h) == {i \in InWindow(h) : ~Excluded(h[i])}

EntryOf(m) ==
    (IF m.role = "user" THEN <<"User: ">> ELSE <<"Assistant: ">>) \o m.content

\* the entries of the retained positions >= lo, each followed by a blank line
RECURSIVE EntriesFrom(_, _)
EntriesFrom(h, lo) ==
    IF lo > Len(h) THEN <<>>
    ELSE IF lo \in RetainedIdx(h)
      THEN EntryOf(h[lo]) \o <<"\n\n">> \o EntriesFrom(h, lo + 1)
      ELSE EntriesFrom(h, lo + 1)

ExpectedPayload(h, input) == EntriesFrom(h, 1) \o <<"User: ">> \o input

SeparatorCount(text) == Cardinality({j \in DOMAIN text : text[j] = "\n\n"})

ExampleHistory ==
    << [role |-> "user", content |-> <<"hi">>, is_context |-> FALSE],
       [role |-> "assistant", content |-> <<"hello">>, is_context |-> FALSE],
       [role |-> "system", content |-> <<"note">>, is_context |-> TRUE] >>

\* C1 as stated: for every history the payload is the retained entries in
\* order, then "User: <input>", joined by a blank line.
C1_Original ==
    calls >= 1 => payload = ExpectedPayload(history, current_input)

\* C1 (amended): whenever at least one message of the last-10 window is
\* retained, the payload is the entries "User: <content>" / "Assistant:
\* <content>" of the retained messages in their original order, followed by
\* "User: <input>" as the last entry, joined by a blank line; with no retained
\* message the payload is the input alone.
C1_EntriesInOrder ==
    calls >= 1 =>
        IF RetainedIdx(history) # {}
          THEN payload = ExpectedPayload(history, current_input)
          ELSE payload = current_input

C1_Witness ==
    /\ calls >= 1
    /\ history = ExampleHistory
    /\ current_input = <<"bye">>
    /\ payload = <<"User: ", "hi", "\n\n", "Assistant: ", "hello", "\n\n",
                   "User: ", "bye">>

\* C3: only the last 10 messages of the history can participate: the content
\* of an older message never occurs in the payload, the payload holds at most
\* 10 history entries, and with 12 alternating user/assistant messages exactly
\* messages 3..12 participate.
C3_LastTenOnly ==
    calls >= 1 =>
        /\ \A i \in 1..Len(history) :
               i <= Len(history) - 10 => history[i].content[1] \notin Atoms(payload)
        /\ SeparatorCount(payload) <= 10
        /\ (Len(history) = 12 /\ RetainedIdx(history) = 3..12) =>
               /\ SeparatorCount(payload) = 10
               /\ \A i \in 3..12 : history[i].content[1] \in Atoms(payload)

C3_Witness ==
    /\ calls >= 1
    /\ Len(history) = 12
    /\ \A i \in 1..12 : ~Excluded(history[i])
    /\ \A i \in 1..11 : history[i].role # history[i + 1].role
    /\ SeparatorCount(payload) = 10
    /\ history[2].content[1] \notin Atoms(payload)
    /\ history[3].content[1] \in Atoms(payload)

\* C4: when the history is empty, or every message of its last-10 window is a
\* system/context message, the text sent is exactly the new input: no
\* "User: " prefix and no separator.
C4_InputAlone ==
    (calls >= 1 /\ \A i \in InWindow(history) : Excluded(history[i])) =>
        /\ payload = current_input
        /\ "User: " \notin Atoms(payload)
        /\ "\n\n" \notin Atoms(payload)

C4_Witness ==
    /\ calls >= 1
    /\ Len(history) > 10
    /\ \A i \in InWindow(history) : Excluded(history[i])
    /\ ~Excluded(history[1])
    /\ payload = current_input

NoteAtoms ==
    {"Note: Switching from agent '", "' to '",
     "'. Previous conversation context is maintained."}

LastUserIdx(msgs) ==
    LET U == {j \in 1..Len(msgs) : msgs[j].role = "user"}
    IN IF U = {} THEN 0 ELSE CHOOSE j \in U : \A k \in U : k <= j

\* C2: no message whose role is system or whose is_context flag is true ever
\* contributes its content to a payload sent to the remote agent, after any
\* sequence of chat turns, agent switches and session resets: the text of an
\* agent-switch note never occurs in an invoke_agent request.
C2_NoContextInPayload ==
    /\ NoteAtoms \cap Atoms(agent_call.inputText) = {}
    /\ \A i \in 1..Len(session_state.messages) :
           Excluded(session_state.messages[i]) =>
               Atoms(session_state.messages[i].content)
                   \cap Atoms(agent_call.inputText) = {}

\* a chat turn was sent after an agent switch put a note into the history:
\* the request holds every retained message up to the prompt, and the prompt
C2_Witness ==
    LET msgs == session_state.messages
        j == LastUserIdx(msgs)
    IN /\ j > 0
       /\ \E i \in 1..j : Excluded(msgs[i]) /\ msgs[i].is_context
       /\ agent_call.sessionId = session_state.session_id
       /\ SeparatorCount(agent_call.inputText)
              = Cardinality({k \in 1..j : ~Excluded(msgs[k])})

(***************************************************************************)
(* Claims about the upload pipeline (SpecUpload)                            *)
(***************************************************************************)
Failed(i) == upload_log[i].outcome # "ok"

ResultsWith(status) == {k \in DOMAIN results : results[k].status = status}

\* C6: every file of the batch is attempted exactly once, in submission
\* order; the failure of the upload of file i is recorded as an error result
\* for file i and does not prevent the later attempts; a batch of 3 whose 2nd
\* upload fails yields 2 success results and 1 error result.
C6_CollectAll ==
    up_pc = "done" =>
        /\ Len(upload_log) = Len(files_list)
        /\ \A i \in 1..Len(files_list) :
               /\ upload_log[i].file = i
               /\ upload_log[i].name = files_list[i]
               /\ Failed(i) =>
                      /\ files_list[i] \in DOMAIN results
                      /\ results[files_list[i]].status = "error"
        /\ (Len(files_list) = 3 /\ ~Failed(1) /\ Failed(2) /\ ~Failed(3)) =>
               /\ Cardinality(ResultsWith("success")) = 2
               /\ Cardinality(ResultsWith("error")) = 1

\* C7: the call returns one UploadResult per submitted file, and the counts
\* it reports are right: the success count is the number of files whose
\* upload succeeded, the failure count the number whose upload failed, and
\* the two add up to the number of submitted files.
C7_ResultPerFileAndCounts ==
    up_pc = "done" =>
        /\ Cardinality(DOMAIN results) = Len(files_list)
        /\ successful_uploads
               = Cardinality({i \in 1..Len(upload_log) : ~Failed(i)})
        /\ failed_uploads
               = Cardinality({i \in 1..Len(upload_log) : Failed(i)})
        /\ successful_uploads + failed_uploads = Len(files_list)

(***************************************************************************)
(* Claims about the ingestion trigger (SpecSync)                            *)
(***************************************************************************)
SyncFinished == sync_pc \in {"done", "raised"}

\* C8: when the knowledge base reports zero data sources, sync_knowledge_base
\* (of the interactive client and of the serverless client) yields an explicit
\* error outcome and never calls start_ingestion_job.
C8_NoSourceNoStart ==
    (data_sources = <<>> /\ list_outcome = "ok") =>
        /\ ingestion_calls = <<>>
        /\ SyncFinished =>
               sync_result.kind \in {"None", "status_code"}


(***************************************************************************)
(* Claims about the serverless save handler (SpecLambda)                    *)
(***************************************************************************)
ContentMissing ==
    LET parameters == EventParameters(event)
    IN Len(parameters) < 2 \/ parameters[2].value = <<>>

\* C9: when the content parameter (parameters[1]) is missing or its value is
\* empty, lambda_handler returns a 400-class outcome at once, with no storage
\* write and no ingestion start in that invocation.
C9_MissingContent400 ==
    (ContentMissing /\ lam_pc # "receive") =>
        /\ lam_pc = "returned"
        /\ handler_result.kind = "status_code"
        /\ handler_result.statusCode = 400
        /\ s3_puts = <<>>
        /\ ingestion_calls = <<>>

SyncInvoked == sync_pc \in {"call", "start", "done", "raised"}

\* C11: for every event with non-empty content, lambda_handler invokes
\* sync_knowledge_base exactly once, and only after the save attempt has
\* finished, whether the save succeeded or failed.
C11_SyncOnceAfterSave ==
    /\ []((~ContentMissing /\ lam_pc \in {"sync", "returned", "raised"}) =>
              /\ SyncInvoked
              /\ upload_response.kind = "text_body"
              /\ Len(ingestion_calls) <= 1)
    /\ []((SyncInvoked \/ ingestion_calls # <<>>) =>
              upload_response.kind = "text_body")
    /\ [][sync_pc # "idle" => sync_pc' \notin {"idle", "call"} \/ sync_pc' = sync_pc]_vars

C11_Witness ==
    /\ ~ContentMissing
    /\ lam_pc = "returned"
    /\ upload_response.status = "error"
    /\ sync_pc = "done"
    /\ Len(ingestion_calls) = 1

\* C12: for every event with non-empty content, lambda_handler returns the
\* response envelope, which embeds the save outcome, whether the save, the
\* data-source lookup and the ingestion start succeed or fail; no failure of
\* them leaves the handler as an exception.
C12_AlwaysEnvelope ==
    (~ContentMissing /\ lam_pc \notin {"receive", "save"}) =>
        /\ lam_pc # "raised"
        /\ (lam_pc = "returned" =>
               /\ handler_result.kind = "envelope"
               /\ handler_result.upload_result = upload_response)

(***************************************************************************)
(* Claims about invoke_agent and its response stream (SpecInvoke)           *)
(***************************************************************************)
HasText(e) == e.has_chunk /\ e.has_bytes

\* the decoded chunks of events lo..Len(evs), in arrival order
RECURSIVE ChunksFrom(_, _)
ChunksFrom(evs, lo) ==
    IF lo > Len(evs) THEN <<>>
    ELSE (IF HasText(evs[lo]) THEN decode_utf8(evs[lo].bytes) ELSE <<>>)
             \o ChunksFrom(evs, lo + 1)

\* C13: invoke_agent returns the concatenation, in arrival order, of the
\* decoded bytes of every chunk event of the stream; an event without chunk,
\* or a chunk without bytes, adds nothing; a stream with zero chunks yields
\* the empty string and no error.
C13_ConcatChunks ==
    (inv_pc = "returned" /\ inv_failure = "none") =>
        /\ invoke_result.kind = "str"
        /\ invoke_result.text = ChunksFrom(stream, 1)
        /\ (\A i \in 1..Len(stream) : ~HasText(stream[i])) =>
               invoke_result.text = <<>>

C13_Witness ==
    /\ inv_pc = "returned"
    /\ inv_failure = "none"
    /\ Len(stream) = 3
    /\ stream[1].bytes = <<"68", "69">>
    /\ ~stream[2].has_chunk
    /\ stream[3].bytes = <<"C3", "A9">>
    /\ invoke_result.text = <<"h", "i", "e-acute">>

\* C14: any transport or service failure during invoke_agent, when the
\* request is sent or while the stream is consumed (a read timeout among
\* them), is returned to the caller as a user-facing error string; no
\* exception leaves invoke_agent.
C14_FailureAsString ==
    inv_failure # "none" =>
        /\ inv_pc = "returned"
        /\ invoke_result.kind = "str"
        /\ invoke_result.text = ErrorString

(***************************************************************************)
(* Claims about the chat session (Spec)                                     *)
(***************************************************************************)
IsPrefix(a, b) == Len(a) <= Len(b) /\ SubSeq(b, 1, Len(a)) = a

Messages == session_state.messages

\* this step dropped or changed a message of the history
HistoryLost == ~IsPrefix(session_state.messages, session_state'.messages)

\* C15: a session_id is never reused across two conversations: New Session
\* and Disconnect replace session_id with a freshly generated value in the
\* step in which they clear the message history; no operation clears the
\* history and keeps the session_id, or brings an earlier session_id back.
C15_FreshSessionId ==
    /\ [][HistoryLost =>
              /\ session_state'.session_id # session_state.session_id
              /\ session_state'.session_id > uuid_count]_vars
    /\ [][session_state'.session_id # session_state.session_id =>
              /\ session_state'.session_id = uuid_count'
              /\ uuid_count' = uuid_count + 1]_vars
    /\ [][(NewSession \/ Disconnect) =>
              session_state'.session_id = uuid_count + 1]_vars
    /\ [](session_state.session_id = uuid_count)

C15_Witness ==
    /\ session_state.session_id = 3
    /\ Len(Messages) >= 2
    /\ Messages[2].role = "user"

UserEntries(text) == Cardinality({j \in DOMAIN text : text[j] = UserPrefix[1]})

UserTurns(msgs) == Cardinality({i \in DOMAIN msgs : msgs[i].role = "user"})

\* the request of a user chat turn: its payload ends with a prompt
IsChatCall(call) ==
    /\ call.inputText # <<>>
    /\ <<call.inputText[Len(call.inputText)]>> \in Prompts

\* C19: on a user chat turn the history handed to the builder holds only the
\* turns before the new input, so the payload holds the new user input once,
\* as its last entry: it has as many user entries as the session has user
\* turns, the new one included.
C19_InputOnce ==
    [][(agent_call' # agent_call /\ IsChatCall(agent_call')) =>
           UserEntries(agent_call'.inputText)
               = UserTurns(session_state'.messages)]_vars

\* C20: the message history is append-only within a session: every
\* operation other than New Session and Disconnect leaves the existing
\* messages unchanged and in order and only adds at the end; only New
\* Session and Disconnect empty it.
C20_AppendOnly ==
    /\ [][HistoryLost => (NewSession \/ Disconnect)]_vars
    /\ [][HistoryLost => session_state'.session_id # session_state.session_id]_vars
    /\ [][(ConnectToAWS \/ Navigate \/ PickAgent \/ SubmitPrompt \/ Rerun) =>
              IsPrefix(session_state.messages, session_state'.messages)]_vars

C20_Witness ==
    /\ session_state.session_id = 1
    /\ Len(Messages) = 4
    /\ Messages[1].role = "assistant"
    /\ Messages[2].role = "user"
    /\ \E i \in 3..4 : Messages[i].is_context = TRUE

(***************************************************************************)
(* Claims about sanitize_filename (SpecSanitize)                            *)
(***************************************************************************)
CleanName(name) ==
    /\ name # <<>>
    /\ \A i \in 1..Len(name) :
           name[i] \notin {"<", ">", ":", "\"", "/", "\\", "|", "?", "*"}
    /\ name[1] \notin {" ", "."}
    /\ name[Len(name)] \notin {" ", "."}

\* C16: for every input string, sanitize_filename returns a non-empty name
\* that holds none of the characters < > : " / \ | ? * and has no leading or
\* trailing space or dot.
C16_CleanOutput ==
    san_pc \in {"again", "done"} => CleanName(san_output)

C16_Witness ==
    /\ san_pc = "again"
    /\ san_input = <<" ", "\\", ".">>
    /\ san_output = <<"_">>

HexDigits ==
    {"0", "1", "2", "3", "4", "5", "6", "7", "8", "9", "a", "b", "c", "d", "e", "f"}

IsPlaceholder(name) ==
    /\ Len(name) = 9
    /\ name[1] = "unnamed_file_"
    /\ \A i \in 2..9 : name[i] \in HexDigits

FirstOutput == IF san_pc = "again" THEN san_output ELSE san_prev

\* C17: sanitize_filename is idempotent on already-clean names: sanitizing
\* one of its outputs returns it unchanged; an input that sanitizes to empty
\* (nothing but dots and spaces) yields unnamed_file_ followed by 8
\* hexadecimal characters.
C17_IdempotentPlaceholder ==
    /\ san_pc = "done" => san_output = san_prev
    /\ (san_pc \in {"again", "done"}
          /\ \A i \in 1..Len(san_input) : san_input[i] \in {".", " "}) =>
           IsPlaceholder(FirstOutput)

C17_Witness ==
    /\ san_pc = "done"
    /\ san_input = <<".", " ">>
    /\ IsPlaceholder(san_prev)
    /\ san_output = san_prev

(***************************************************************************)
(* Claims about the content-type resolver (SpecLambda)                      *)
(***************************************************************************)
Extension(name) == IF Len(name) >= 2 THEN name[Len(name)] ELSE ""

\* C18: get_content_type applies its policy in order: a name ending in .md,
\* .json or .xml gets text/markdown, application/json or application/xml,
\* whatever the standard lookup returns for it (text/xml for .xml); any
\* other name gets the lookup's result (text/plain for .txt), and
\* application/octet-stream when the lookup finds nothing.
C18_ContentTypePolicy ==
    save_call.kind # "none" =>
        LET ext == Extension(save_call.file_name)
        IN save_call.content_type =
               CASE ext = ".md" -> "text/markdown"
                 [] ext = ".json" -> "application/json"
                 [] ext = ".xml" -> "application/xml"
                 [] ext = ".txt" -> "text/plain"
                 [] OTHER -> "application/octet-stream"

C18_Witness ==
    /\ save_call.kind = "save_file"
    /\ save_call.file_name = <<"tree", ".xml">>
    /\ save_call.content_type = "application/xml"
    /\ s3_puts # <<>>
    /\ s3_puts[1].ContentType = "application/xml"

(***************************************************************************)
(* Claims about the generic save routine (SpecLambda)                       *)
(***************************************************************************)
Saved == save_call.kind # "none"

IsJsonName(name) == Len(name) >= 1 /\ name[Len(name)] = ".json"

\* json.dumps(..., indent=2) of an object: empty, or one member a line,
\* indented by two spaces
PrettyPrinted(body) ==
    \/ body = <<"{", "}">>
    \/ /\ Len(body) >= 4
       /\ body[1] = "{"
       /\ body[2] = "\n  "
       /\ body[Len(body) - 1] = "\n"
       /\ body[Len(body)] = "}"

\* C21: save_file branches on the extension: for a name ending in .json the
\* stored body is the pretty-printed form of the content and parses to the
\* same JSON value; for any other name the stored body is the content
\* verbatim; when the content of a .json file is not valid JSON, nothing is
\* written and the save outcome has status error.
C21_SaveByExtension ==
    Saved =>
        LET name == save_call.file_name
            content == save_call.content
        IN /\ Len(s3_puts) <= 1
           /\ (IsJsonName(name) /\ json_loads(content).ok) =>
                  /\ Len(s3_puts) = 1
                  /\ PrettyPrinted(s3_puts[1].Body)
                  /\ json_loads(s3_puts[1].Body).ok
                  /\ json_loads(s3_puts[1].Body).value = json_loads(content).value
           /\ (IsJsonName(name) /\ ~json_loads(content).ok) =>
                  /\ s3_puts = <<>>
                  /\ upload_response.status = "error"
           /\ ~IsJsonName(name) =>
                  /\ Len(s3_puts) = 1
                  /\ s3_puts[1].Body = content

C21_Witness ==
    /\ Saved
    /\ save_call.file_name = <<"data", ".json">>
    /\ save_call.content = <<"{", " ", "\"a\"", ":", "1", "}">>
    /\ Len(s3_puts) = 1
    /\ s3_puts[1].Body = <<"{", "\n  ", "\"a\"", ":", " ", "1", "\n", "}">>
    /\ upload_response.status = "success"

(***************************************************************************)
(* Claims about a successful sync (SpecSync)                                *)
(***************************************************************************)
JobStarted == sync_pc = "done" /\ sync_result.kind \in {"job_id", "text_body"}

\* C22: when the knowledge base has one or more data sources and the calls
\* succeed, sync_knowledge_base starts exactly one ingestion job, against the
\* first listed data source of the configured knowledge base, and returns
\* that job's identifier; it makes no further call to wait for the job.
C22_OneJobFirstSource ==
    /\ (data_sources # <<>> /\ list_outcome = "ok" /\ SyncFinished) =>
           ingestion_calls = <<[knowledgeBaseId |-> KnowledgeBaseId,
                                dataSourceId |-> data_sources[1]]>>
    /\ JobStarted =>
           /\ data_sources # <<>>
           /\ list_outcome = "ok"
           /\ Len(ingestion_calls) = 1
           /\ IF client = "chatbot"
                THEN sync_result = [kind |-> "job_id", job_id |-> "job-1"]
                ELSE sync_result.ingestion_Job_Id = "job-1"

C22_Witness ==
    /\ client = "chatbot"
    /\ data_sources = <<"DS2", "DS1">>
    /\ JobStarted
    /\ sync_result.kind = "job_id"
    /\ ingestion_calls[1].dataSourceId = "DS2"

(***************************************************************************)
(* Claims about the credential test (SpecConnect)                           *)
(***************************************************************************)
Categories ==
    <<"Invalid Access Key ID - Please check your credentials",
      "Invalid Secret Access Key - Please check your credentials",
      "Access Denied - Please check your IAM permissions",
      "Credentials have expired - Please refresh your credentials">>

\* the markers found in the message, by their place in the order of the tests
Hits(msg) == {i \in 1..4 : \E j \in DOMAIN msg : msg[j] = CredentialMarkers[i]}

ExpectedError(msg) ==
    IF Hits(msg) = {} THEN msg
    ELSE <<Categories[CHOOSE i \in Hits(msg) : \A k \in Hits(msg) : i <= k]>>

C24_UniqueKeysInBatch ==
    /\ \A i \in 1..Len(upload_log) :
           /\ upload_log[i].key.folder = S3BucketFolder
           /\ upload_log[i].key.name = upload_log[i].name
    /\ \A i, j \in 1..Len(upload_log) :
           (i # j /\ ~Failed(i) /\ ~Failed(j)) =>
               upload_log[i].key # upload_log[j].key

\* C25: two invocations of the save handler never write to the same storage
\* key, so a later save never overwrites the object of an earlier save, also
\* when both carry the same file name.
C25_UniqueKeysAcrossInvocations ==
    \A i, j \in 1..Len(s3_puts) :
        (i # j /\ s3_puts[i].stored /\ s3_puts[j].stored) =>
            s3_puts[i].Key # s3_puts[j].Key

(***************************************************************************)
(* Claims about agent switches, the message count, the login state and the  *)
(* greeting (Spec)                                                          *)
(***************************************************************************)
\* this step changed the selected agent of a connected session
SwitchStep ==
    /\ session_state.is_logged_in
    /\ session_state'.is_logged_in
    /\ session_state'.selected_agent # session_state.selected_agent

\* C27: switching the selected agent leaves session_id and every existing
\* message unchanged, and appends exactly one message with role system and
\* is_context true if and only if an agent was selected before the switch
\* and the history is non-empty; otherwise the switch leaves the history
\* unchanged.
C27_SwitchFrame ==
    [][SwitchStep =>
          /\ session_state'.session_id = session_state.session_id
          /\ IF session_state.selected_agent # None /\ Messages # <<>>
               THEN /\ Len(session_state'.messages) = Len(Messages) + 1
                    /\ SubSeq(session_state'.messages, 1, Len(Messages)) = Messages
                    /\ session_state'.messages[Len(Messages) + 1].role = "system"
                    /\ session_state'.messages[Len(Messages) + 1].is_context = TRUE
               ELSE session_state'.messages = Messages]_vars

C27_Witness ==
    /\ session_state.selected_agent = "A2"
    /\ Len(Messages) = 4
    /\ Messages[4].role = "system"
    /\ Messages[4].is_context
    /\ Messages[3].role = "assistant"
    /\ session_state.session_id = 2

AssistantCount(msgs) == Cardinality({i \in DOMAIN msgs : msgs[i].role = "assistant"})

\* C28: after any sequence of chat turns, agent switches, New Session and
\* Disconnect, conversation_context.message_count equals the number of
\* assistant messages in the history, and is 0 whenever the history is empty.
C28_MessageCount ==
    /\ session_state.conversation_context.message_count = AssistantCount(Messages)
    /\ Messages = <<>> => session_state.conversation_context.message_count = 0

\* C29: is_logged_in is true exactly when session_state.chatbot holds a
\* client: a connect whose credential test fails leaves is_logged_in false
\* and chatbot unset, a successful connect sets both, and Disconnect clears
\* both together with selected_agent and the agent list.
C29_LoggedInIffClient ==
    /\ [](session_state.is_logged_in <=> session_state.chatbot # None)
    /\ [](~session_state.is_logged_in =>
             session_state.selected_agent = None /\ session_state.agents = <<>>)
    /\ []((credential_test # NoResult /\ credential_test.result.status = "error") =>
             ~session_state.is_logged_in /\ session_state.chatbot = None)
    /\ []((credential_test # NoResult /\ credential_test.result.status = "success") =>
             session_state.is_logged_in /\ session_state.chatbot # None)
    /\ [][(session_state.is_logged_in /\ ~session_state'.is_logged_in) =>
              /\ session_state'.chatbot = None
              /\ session_state'.selected_agent = None
              /\ session_state'.agents = <<>>]_vars

C29_Witness ==
    /\ session_state.session_id = 2
    /\ ~session_state.is_logged_in
    /\ session_state.chatbot = None
    /\ credential_test # NoResult
    /\ credential_test.result.status = "error"

ChatRendered ==
    /\ session_state.is_logged_in
    /\ session_state.selected_page = "Chat"
    /\ session_state.selected_agent # None

\* C30: when the chat section renders with a selected agent and an empty
\* history, the agent is invoked once with the payload "Hello" before any
\* user input is accepted, its reply is appended as an assistant message and
\* "Hello" is not recorded; so every non-empty history begins with an
\* assistant message, and the greeting is sent again only after the history
\* has been cleared.
C30_GreetingFirst ==
    /\ [](ChatRendered =>
             /\ Messages # <<>>
             /\ ~run_error)
    /\ [](Messages # <<>> =>
             /\ Messages[1].role = "assistant"
             /\ \A i \in 1..Len(Messages) : Messages[i].content # Hello)
    /\ [][(Messages = <<>> /\ session_state'.messages # <<>>) =>
              \/ agent_call'.inputText = Hello
              \/ IsChatCall(agent_call')]_vars
    /\ [](chat_input_shown => Messages # <<>>)

(***************************************************************************)
(* Claim about the alias the chat is invoked with (SpecAlias)                   *)
(***************************************************************************)
AliasIds(agent_id) ==
    {list_agent_aliases(agent_id)[i].agentAliasId : i \in DOMAIN list_agent_aliases(agent_id)}

\* alias_id names an alias or a version of the agent
AliasOf(agent_id, alias_id) ==
    /\ alias_id \notin {None, Unset}
    /\ alias_id \in AliasIds(agent_id) \cup VersionInputs

\* C26: whenever display_chat_section invokes the agent, chat_alias_id is a
\* non-null identifier that is an alias or a version identifier of the
\* selected agent, after any sequence of connect, agent switch,
\* latest-alias toggle, alias selection, version toggle and
\* disconnect/reconnect.
C26_AliasOfSelectedAgent ==
    agent_call # NoCall => AliasOf(agent_call.agentId, agent_call.agentAliasId)

====
